---- MODULE Spec2Model ----
(***************************************************************************)
(* Store-graph route engine of shoppingLLM: storeGraph.build_store_graph,  *)
(* storeGraph.find_shortest_path and pathFinder.execute_plan with its      *)
(* helpers remove_avoids, append_to_path and draw_path.                    *)
(*                                                                         *)
(* build_store_graph is declared with a json_path parameter and called     *)
(* without one (pathFinder.py:60, LLMassistant.py:27; the module-level     *)
(* json_path of pathFinder.py:19 is commented out).  The model reads the   *)
(* call as loading the one venue description of the session, `venue`.      *)
(*                                                                         *)
(* networkx is modelled by its contract: on a graph whose weights are all  *)
(* non-negative, shortest_path returns some minimum-weight simple path and *)
(* shortest_path_length its weight; where a negative weight is within      *)
(* reach of the search, Dijkstra's precondition is broken and the outcome  *)
(* is a choice among the ValueError "Contradictory paths found", any       *)
(* simple path, and any simple path's weight.                              *)
(***************************************************************************)
EXTENDS Integers, Sequences, FiniteSets, TLC

\* Longest waypoint list a request carries in the model.
MaxWaypoints == 2

\* Node identifiers that venue descriptions and requests draw from.
NodeIds == {"A", "B", "C"}

\* The empty string given as a node id in a request.
EmptyId == ""

\* Python's None, as dict.get returns it for a missing (or null) key.
NoneVal == "<None>"

\* Distances an edge-table entry may carry (JSON numbers).
DistValues == {-1, 1, 2}

\* Invocations of execute_plan.
Calls == {1, 2}

VARIABLES venue, sharedG, plan, pc, G, waypoints, leg, path, total_distance, result

vars == <<venue, sharedG, plan, pc, G, waypoints, leg, path, total_distance, result>>

----------------------------------------------------------------------------
(* storeGraph.py *)

\* float(dist) on a JSON number: the value itself (exact on these integers).
ToFloat(dist) == dist

EmptyGraph == [nodes |-> {}, coords |-> {}, weight |-> <<>>]

\* G.has_edge(src, dest) on an undirected graph.
HasEdge(g, src, dest) == {src, dest} \in DOMAIN g.weight

\* The "Add Nodes" loop: every key of the node table, with its x and y.
AddNodes(g, nodeTable) ==
    [nodes |-> g.nodes \cup nodeTable, coords |-> g.coords \cup nodeTable, weight |-> g.weight]

\* G.add_edge(src, dest, weight=w): nodes not yet in the graph are created
\* without attributes.
AddEdge(g, src, dest, w) ==
    [nodes |-> g.nodes \cup {src, dest},
     coords |-> g.coords,
     weight |-> [e \in (DOMAIN g.weight) \cup {{src, dest}} |->
                    IF e = {src, dest} THEN w ELSE g.weight[e]]]

\* The "Add Edges" loop over the edge table in document order.
RECURSIVE AddEdges(_, _)
AddEdges(g, edges) ==
    IF edges = <<>> THEN g
    ELSE LET e == Head(edges)
             g2 == IF HasEdge(g, e[1], e[2]) THEN g
                   ELSE AddEdge(g, e[1], e[2], ToFloat(e[3]))
         IN AddEdges(g2, Tail(edges))

build_store_graph(v) == AddEdges(AddNodes(EmptyGraph, v.nodes), v.edges)

Neighbors(g, n) == {m \in g.nodes : {n, m} \in DOMAIN g.weight}

\* Nodes connected to n.
RECURSIVE ReachFrom(_, _)
ReachFrom(g, seen) ==
    LET next == seen \cup UNION {Neighbors(g, n) : n \in seen}
    IN IF next = seen THEN seen ELSE ReachFrom(g, next)

Reach(g, n) == ReachFrom(g, {n})

SimplePaths(g, a, b) ==
    {p \in UNION {[1..n -> g.nodes] : n \in 1..Cardinality(g.nodes)} :
        /\ p[1] = a
        /\ p[Len(p)] = b
        /\ \A i, j \in 1..Len(p) : i # j => p[i] # p[j]
        /\ \A i \in 1..(Len(p) - 1) : {p[i], p[i + 1]} \in DOMAIN g.weight}

RECURSIVE PathWeight(_, _)
PathWeight(g, p) ==
    IF Len(p) < 2 THEN 0
    ELSE g.weight[{p[1], p[2]}] + PathWeight(g, Tail(p))

MinWeight(g, a, b) ==
    LET ws == {PathWeight(g, p) : p \in SimplePaths(g, a, b)}
    IN CHOOSE w \in ws : \A x \in ws : w <= x

\* A negative weight on an edge the search from a or from b can touch.
NegativeInReach(g, a, b) ==
    \E e \in DOMAIN g.weight :
        g.weight[e] < 0 /\ e \subseteq (Reach(g, a) \cup Reach(g, b))

Raised(exc, msg) == [ok |-> FALSE, exc |-> exc, msg |-> msg, path |-> <<>>, distance |-> 0]
Found(p, d) == [ok |-> TRUE, exc |-> "", msg |-> "", path |-> p, distance |-> d]

\* The outcomes of find_shortest_path(G, start_node, end_node).
find_shortest_path(g, start_node, end_node) ==
    IF start_node \notin g.nodes \/ end_node \notin g.nodes
    THEN {Raised("ValueError", "Invalid node(s) provided.")}
    ELSE IF start_node = end_node
    THEN {Found(<<start_node>>, 0)}
    ELSE LET paths == SimplePaths(g, start_node, end_node) IN
         IF ~NegativeInReach(g, start_node, end_node)
         THEN IF paths = {}
              THEN {Raised("NetworkXNoPath", "No path between nodes.")}
              ELSE {Found(p, PathWeight(g, p)) :
                        p \in {q \in paths :
                                 PathWeight(g, q) = MinWeight(g, start_node, end_node)}}
         ELSE {Raised("ValueError", "Contradictory paths found: negative weights?")}
              \cup (IF paths = {}
                    THEN {Raised("NetworkXNoPath", "No path between nodes.")}
                    ELSE {Found(p, PathWeight(g, q)) : p \in paths, q \in paths})

----------------------------------------------------------------------------
(* pathFinder.py *)

\* plan.get(key), plan.get(key, default)
Get(p, key, default) == IF key \in DOMAIN p THEN p[key] ELSE default

\* remove_avoids with the removal left out.
remove_avoids_kept(g, avoid_nodes) == g

\* remove_avoids: G.remove_nodes_from(avoid_nodes), edges at them included.
remove_avoids(g, avoid_nodes) ==
    IF avoid_nodes # {}
    THEN [nodes |-> g.nodes \ avoid_nodes,
          coords |-> g.coords \ avoid_nodes,
          weight |-> [e \in {x \in DOMAIN g.weight : x \cap avoid_nodes = {}} |-> g.weight[e]]]
    ELSE g

\* append_to_path that appends every leg whole.
append_to_path_whole(path_list, sub_path) == path_list \o sub_path

\* append_to_path
append_to_path(path_list, sub_path) ==
    IF path_list = <<>> THEN path_list \o sub_path
    ELSE path_list \o Tail(sub_path)

RECURSIVE Reverse(_)
Reverse(seq) == IF seq = <<>> THEN <<>> ELSE Reverse(Tail(seq)) \o <<Head(seq)>>

\* The leg sequence with the waypoints taken back to front.
LegSequenceReversed(start, waypoints_list, end) == <<start>> \o Reverse(waypoints_list) \o <<end>>

\* waypoints = [start] + waypoints_list + [end]
LegSequence(start, waypoints_list, end) == <<start>> \o waypoints_list \o <<end>>

\* draw_path reads x and y of every node of the graph it is given.
DrawPathFails(g) == g.nodes # g.coords

NoResult == [kind |-> "none", exc |-> "", msg |-> "", a |-> "", b |-> "",
             path |-> <<>>, total |-> 0]

RaisedResult(exc, msg, a, b) == [kind |-> "raise", exc |-> exc, msg |-> msg, a |-> a, b |-> b,
                                 path |-> <<>>, total |-> 0]

ReturnedResult(p, t) == [kind |-> "return", exc |-> "", msg |-> "", a |-> "", b |-> "",
                         path |-> p, total |-> t]

\* execute_plan routing on one graph object kept across calls, the avoided
\* nodes removed from it in place.
ExecutePlanBeginShared(c) ==
    /\ pc[c] = "called"
    /\ LET g == remove_avoids(sharedG, Get(plan[c], "avoid", {}))
           start == Get(plan[c], "start", NoneVal)
           end == Get(plan[c], "end", NoneVal)
           waypoints_list == Get(plan[c], "waypoints", <<>>)
       IN /\ G' = [G EXCEPT ![c] = g]
          /\ sharedG' = g
          /\ IF start = NoneVal \/ end = NoneVal
             THEN /\ pc' = [pc EXCEPT ![c] = "raised"]
                  /\ result' = [result EXCEPT ![c] =
                        RaisedResult("ValueError", "Plan must include 'start' and 'end' nodes.", "", "")]
                  /\ UNCHANGED <<waypoints, leg, path, total_distance>>
             ELSE /\ pc' = [pc EXCEPT ![c] = "legs"]
                  /\ waypoints' = [waypoints EXCEPT ![c] = LegSequence(start, waypoints_list, end)]
                  /\ leg' = [leg EXCEPT ![c] = 1]
                  /\ path' = [path EXCEPT ![c] = <<>>]
                  /\ total_distance' = [total_distance EXCEPT ![c] = 0]
                  /\ UNCHANGED result
    /\ UNCHANGED <<venue, plan>>

\* execute_plan, lines 60-73: the graph of this call, the avoided nodes removed
\* from it, and the request normalised.
ExecutePlanBegin(c) ==
    /\ pc[c] = "called"
    /\ LET g == remove_avoids(build_store_graph(venue), Get(plan[c], "avoid", {}))
           start == Get(plan[c], "start", NoneVal)
           end == Get(plan[c], "end", NoneVal)
           waypoints_list == Get(plan[c], "waypoints", <<>>)
       IN /\ G' = [G EXCEPT ![c] = g]
          /\ IF start = NoneVal \/ end = NoneVal
             THEN /\ pc' = [pc EXCEPT ![c] = "raised"]
                  /\ result' = [result EXCEPT ![c] =
                        RaisedResult("ValueError", "Plan must include 'start' and 'end' nodes.", "", "")]
                  /\ UNCHANGED <<waypoints, leg, path, total_distance>>
             ELSE /\ pc' = [pc EXCEPT ![c] = "legs"]
                  /\ waypoints' = [waypoints EXCEPT ![c] = LegSequence(start, waypoints_list, end)]
                  /\ leg' = [leg EXCEPT ![c] = 1]
                  /\ path' = [path EXCEPT ![c] = <<>>]
                  /\ total_distance' = [total_distance EXCEPT ![c] = 0]
                  /\ UNCHANGED result
    /\ UNCHANGED <<venue, sharedG, plan>>

\* The loop going on to the next pair when find_shortest_path raises.
ExecutePlanLegSkipping(c) ==
    /\ pc[c] = "legs"
    /\ leg[c] < Len(waypoints[c])
    /\ LET a == waypoints[c][leg[c]]
           b == waypoints[c][leg[c] + 1]
       IN \E out \in find_shortest_path(G[c], a, b) :
            /\ path' = [path EXCEPT ![c] = IF out.ok THEN append_to_path(path[c], out.path) ELSE @]
            /\ total_distance' = [total_distance EXCEPT ![c] = @ + ToFloat(out.distance)]
            /\ leg' = [leg EXCEPT ![c] = @ + 1]
            /\ UNCHANGED <<pc, result>>
    /\ UNCHANGED <<venue, sharedG, plan, G, waypoints>>

\* One turn of the loop over zip(waypoints, waypoints[1:]), lines 75-89.
ExecutePlanLeg(c) ==
    /\ pc[c] = "legs"
    /\ leg[c] < Len(waypoints[c])
    /\ LET a == waypoints[c][leg[c]]
           b == waypoints[c][leg[c] + 1]
       IN \E out \in find_shortest_path(G[c], a, b) :
            IF out.ok
            THEN /\ path' = [path EXCEPT ![c] = append_to_path(path[c], out.path)]
                 /\ total_distance' = [total_distance EXCEPT ![c] = @ + ToFloat(out.distance)]
                 /\ leg' = [leg EXCEPT ![c] = @ + 1]
                 /\ UNCHANGED <<pc, result>>
            ELSE /\ pc' = [pc EXCEPT ![c] = "raised"]
                 /\ result' = [result EXCEPT ![c] = RaisedResult("ValueError", out.msg, a, b)]
                 /\ UNCHANGED <<path, total_distance, leg>>
    /\ UNCHANGED <<venue, sharedG, plan, G, waypoints>>

\* Lines 91-92: draw_path, then return path, total_distance.
ExecutePlanFinish(c) ==
    /\ pc[c] = "legs"
    /\ leg[c] = Len(waypoints[c])
    /\ IF DrawPathFails(G[c])
       THEN /\ pc' = [pc EXCEPT ![c] = "raised"]
            /\ result' = [result EXCEPT ![c] = RaisedResult("KeyError", "x", "", "")]
       ELSE /\ pc' = [pc EXCEPT ![c] = "returned"]
            /\ result' = [result EXCEPT ![c] = ReturnedResult(path[c], total_distance[c])]
    /\ UNCHANGED <<venue, sharedG, plan, G, waypoints, leg, path, total_distance>>

----------------------------------------------------------------------------
(* Inputs *)

\* Edge-table entries in document order: three edges between distinct nodes
\* and a loop at A; each entry may be absent.
EdgeSlots == << <<"A", "B">>, <<"B", "C">>, <<"A", "C">>, <<"A", "A">> >>

RECURSIVE EdgeTable(_, _, _)
EdgeTable(present, dist, k) ==
    IF k > Len(EdgeSlots) THEN <<>>
    ELSE (IF k \in present THEN << <<EdgeSlots[k][1], EdgeSlots[k][2], dist[k]>> >> ELSE <<>>)
         \o EdgeTable(present, dist, k + 1)

\* Node tables: every id, or every id but C (an edge entry naming C is then
\* a reference to a node the table does not hold).
NodeTables == {NodeIds, NodeIds \ {"C"}}

SlotDists(k) == IF k = 4 THEN {-1} ELSE DistValues

Venues ==
    {[nodes |-> nt, edges |-> EdgeTable(present, dist, 1)] :
        nt \in NodeTables,
        present \in SUBSET (1..4),
        dist \in {d \in [1..4 -> DistValues] : \A k \in 1..4 : d[k] \in SlotDists(k)}}

\* Waypoint lists of a request.
WaypointIds == {"B", "C"}

WaypointLists == UNION {[1..n -> WaypointIds] : n \in 0..MaxWaypoints}

\* Requests as the planner may send them: any key may be missing (dict.get
\* then yields None, as it does for a JSON null), and start or end may be "".
PlanKeys == {"start", "end", "waypoints", "avoid"}

MakePlan(keys, s, e, w, a) ==
    [k \in keys |-> IF k = "start" THEN s
                    ELSE IF k = "end" THEN e
                    ELSE IF k = "avoid" THEN a
                    ELSE w]

\* Requests with every key present and node ids for start and end.
FullPlans ==
    {MakePlan(PlanKeys, s, e, w, a) :
        s \in NodeIds, e \in NodeIds, w \in WaypointLists, a \in SUBSET NodeIds}

\* Requests of every shape.
ShapePlans ==
    {MakePlan(keys, s, e, w, a) :
        keys \in SUBSET PlanKeys,
        s \in NodeIds \cup {EmptyId}, e \in NodeIds \cup {EmptyId},
        w \in WaypointLists, a \in SUBSET NodeIds}

\* The venues the requests of every shape are run on: A-B and B-C of length 1.
ShapeVenues ==
    {[nodes |-> nt, edges |-> EdgeTable(present, [k \in 1..4 |-> IF k = 4 THEN -1 ELSE 1], 1)] :
        nt \in NodeTables, present \in SUBSET {1, 2}}

\* Two concurrent invocations: venues A-B 1, B-C 1, A-C 2 and parts of it,
\* requests from A with waypoints at B.
ConcVenues ==
    {[nodes |-> nt, edges |-> EdgeTable(present, [k \in 1..4 |-> IF k = 3 THEN 2 ELSE 1], 1)] :
        nt \in NodeTables, present \in {{1}, {1, 2}, {1, 2, 3}}}

ConcPlans ==
    {MakePlan(PlanKeys, "A", e, w, a) :
        e \in NodeIds,
        w \in UNION {[1..n -> {"B"}] : n \in 0..MaxWaypoints},
        a \in {x \in SUBSET NodeIds : Cardinality(x) <= 1}}

InitCall(v, plans, pcs) ==
    /\ venue = v
    /\ sharedG = build_store_graph(v)
    /\ plan = plans
    /\ pc = pcs
    /\ G = [c \in Calls |-> EmptyGraph]
    /\ waypoints = [c \in Calls |-> <<>>]
    /\ leg = [c \in Calls |-> 0]
    /\ path = [c \in Calls |-> <<>>]
    /\ total_distance = [c \in Calls |-> 0]
    /\ result = [c \in Calls |-> NoResult]

OneCall == [c \in Calls |-> IF c = 1 THEN "called" ELSE "idle"]

\* One invocation of execute_plan after LLMAssistant.__init__ loaded self.G.
Init ==
    \/ \E v \in Venues, p \in FullPlans : InitCall(v, [c \in Calls |-> p], OneCall)
    \/ \E v \in ShapeVenues, p \in ShapePlans : InitCall(v, [c \in Calls |-> p], OneCall)

\* Two invocations, their steps interleaved.
InitConc ==
    \E v \in ConcVenues, ps \in [Calls -> ConcPlans] :
        InitCall(v, ps, [c \in Calls |-> "called"])

Next == \E c \in Calls : ExecutePlanBegin(c) \/ ExecutePlanLeg(c) \/ ExecutePlanFinish(c)

Spec == Init /\ [][Next]_vars

SpecConc == InitConc /\ [][Next]_vars

----------------------------------------------------------------------------
(* Properties *)

Range(seq) == {seq[i] : i \in DOMAIN seq}

\* The graph build_store_graph makes of the venue description.
Loaded == build_store_graph(venue)

AvoidOf(c) == Get(plan[c], "avoid", {})
StartOf(c) == Get(plan[c], "start", NoneVal)
EndOf(c) == Get(plan[c], "end", NoneVal)
WaypointsOf(c) == Get(plan[c], "waypoints", <<>>)

\* [start] + waypoints + [end] of the request.
Requested(c) == <<StartOf(c)>> \o WaypointsOf(c) \o <<EndOf(c)>>

\* The loaded graph without the nodes of the request's avoid set.
Filtered(c) ==
    LET g == Loaded IN
    [nodes |-> g.nodes \ AvoidOf(c),
     coords |-> g.coords \ AvoidOf(c),
     weight |-> [e \in {x \in DOMAIN g.weight : x \cap AvoidOf(c) = {}} |-> g.weight[e]]]

Returned(c) == pc[c] = "returned"
Finished(c) == pc[c] \in {"returned", "raised"}

InvalidNodeMsg == "Invalid node(s) provided."
NoPathMsg == "No path between nodes."
ContradictoryMsg == "Contradictory paths found: negative weights?"
PlanMsg == "Plan must include 'start' and 'end' nodes."

\* The call raised out of the loop over the legs.
LegFailure(c) ==
    /\ pc[c] = "raised"
    /\ result[c].exc = "ValueError"
    /\ result[c].msg \in {InvalidNodeMsg, NoPathMsg, ContradictoryMsg}

Connected(g, a, b) == a \in g.nodes /\ b \in g.nodes /\ b \in Reach(g, a)

\* C1: a returned path holds no node of the request's avoid set; a request
\* that names an avoided node as start, end or waypoint does not return.
C1_AvoidEnforcement ==
    \A c \in Calls :
        Returned(c) =>
            /\ Range(result[c].path) \cap AvoidOf(c) = {}
            /\ Range(Requested(c)) \cap AvoidOf(c) = {}

\* A returned call whose avoid set holds a node that lies on a shortest
\* start-end path of the loaded graph.
C1_Witness ==
    \E c \in Calls :
        /\ Returned(c)
        /\ WaypointsOf(c) = <<>>
        /\ ~NegativeInReach(Loaded, StartOf(c), EndOf(c))
        /\ \E n \in AvoidOf(c) \cap venue.nodes :
              \E out \in find_shortest_path(Loaded, StartOf(c), EndOf(c)) :
                  out.ok /\ n \in Range(out.path)

\* req[k] sits at position i of p; the rest of req follows in order, a node
\* requested twice in a row at the same position.
RECURSIVE StitchedFrom(_, _, _, _)
StitchedFrom(req, p, k, i) ==
    IF k = Len(req) THEN i = Len(p)
    ELSE IF req[k + 1] = req[k] THEN StitchedFrom(req, p, k + 1, i)
    ELSE \E j \in (i + 1)..Len(p) : p[j] = req[k + 1] /\ StitchedFrom(req, p, k + 1, j)

\* C2: [start] + waypoints + [end] occurs in a returned path in the order
\* requested: start first, end last, each requested node after the one before
\* it (at the same place where the two are the same node).
C2_WaypointInclusion ==
    \A c \in Calls :
        Returned(c) =>
            /\ result[c].path # <<>>
            /\ result[c].path[1] = StartOf(c)
            /\ StitchedFrom(Requested(c), result[c].path, 1, 1)

\* A returned call with two different waypoints, the first not the start and
\* the second not the end, and one with a waypoint repeated.
C2_Witness ==
    \E c \in Calls :
        /\ Returned(c)
        /\ Len(WaypointsOf(c)) = 2
        /\ WaypointsOf(c)[1] # WaypointsOf(c)[2]
        /\ WaypointsOf(c)[1] # StartOf(c)
        /\ WaypointsOf(c)[2] # EndOf(c)

\* The routes a request may return on graph g: the legs from the k-th on
\* stitched to p, their distances added to t.
RECURSIVE Routes(_, _, _, _, _)
Routes(g, req, k, p, t) ==
    IF k = Len(req) THEN {[path |-> p, total |-> t]}
    ELSE UNION {Routes(g, req, k + 1,
                       IF p = <<>> THEN out.path ELSE p \o Tail(out.path),
                       t + out.distance) :
                   out \in {o \in find_shortest_path(g, req[k], req[k + 1]) : o.ok}}

\* C3: the graph loaded for the session stays what load produced, every call
\* routes on the loaded graph less its own avoid set, and what a call returns
\* or raises is an outcome of its own request on that graph.
C3_SharedGraphIsolation ==
    /\ sharedG = Loaded
    /\ \A c \in Calls :
          /\ pc[c] \in {"legs", "returned", "raised"} => G[c] = Filtered(c)
          /\ Returned(c) =>
                [path |-> result[c].path, total |-> result[c].total]
                    \in Routes(Filtered(c), Requested(c), 1, <<>>, 0)
          /\ LegFailure(c) =>
                \E out \in find_shortest_path(Filtered(c), result[c].a, result[c].b) :
                    ~out.ok /\ out.msg = result[c].msg

\* Both calls returned, one of them a path through a node the other one
\* avoided.
C3_Witness ==
    \E c1, c2 \in Calls :
        /\ c1 # c2
        /\ Returned(c1)
        /\ Returned(c2)
        /\ AvoidOf(c1) \cap Range(result[c2].path) # {}

\* C4: a returned path begins with start, ends with end, and every two
\* consecutive entries are different nodes joined by an edge of the filtered
\* graph.
C4_ContinuousPath ==
    \A c \in Calls :
        Returned(c) =>
            LET p == result[c].path IN
            /\ p # <<>>
            /\ p[1] = StartOf(c)
            /\ p[Len(p)] = EndOf(c)
            /\ \A i \in 1..(Len(p) - 1) :
                  /\ p[i] # p[i + 1]
                  /\ {p[i], p[i + 1]} \in DOMAIN Filtered(c).weight

\* A returned call of three legs, one of them from a node to itself, whose
\* path walks at least two edges.
C4_Witness ==
    \E c \in Calls :
        /\ Returned(c)
        /\ Len(Requested(c)) = 4
        /\ \E k \in 1..3 : Requested(c)[k] = Requested(c)[k + 1]
        /\ Len(result[c].path) >= 3

RECURSIVE SumOfLegs(_, _, _)
SumOfLegs(g, req, k) ==
    IF k >= Len(req) THEN 0
    ELSE MinWeight(g, req[k], req[k + 1]) + SumOfLegs(g, req, k + 1)

\* C5: the total of a returned call is the sum over the legs, left to right,
\* of the minimum weight of a path between the leg's ends in the filtered
\* graph, and is at least 0.
C5_DistanceAccumulation ==
    \A c \in Calls :
        Returned(c) =>
            /\ result[c].total = SumOfLegs(Filtered(c), Requested(c), 1)
            /\ result[c].total >= 0

\* C6: a call returns only if every leg has both ends in the filtered graph
\* and a path between them; a call that raised at a leg names that leg's ends,
\* hands back no path, had every earlier leg succeed and takes no further
\* step; a call with a leg that cannot succeed ends raised at or before it.
C6_FailFast ==
    \A c \in Calls :
        LET req == Requested(c)
            g == Filtered(c)
            bad == {k \in 1..(Len(req) - 1) : ~Connected(g, req[k], req[k + 1])}
        IN /\ Returned(c) => bad = {}
           /\ LegFailure(c) =>
                 /\ result[c].kind = "raise"
                 /\ result[c].path = <<>>
                 /\ leg[c] \in 1..(Len(req) - 1)
                 /\ result[c].a = req[leg[c]]
                 /\ result[c].b = req[leg[c] + 1]
                 /\ \A k \in 1..(leg[c] - 1) : k \notin bad
                 /\ ~ENABLED (ExecutePlanLeg(c) \/ ExecutePlanFinish(c))
           /\ (Finished(c) /\ bad # {} /\ StartOf(c) # NoneVal /\ EndOf(c) # NoneVal) =>
                 /\ LegFailure(c)
                 /\ \A k \in bad : leg[c] <= k

\* A call that raised at its second leg with a leg still to come, the first
\* leg's path already stitched.
C6_Witness ==
    \E c \in Calls :
        /\ LegFailure(c)
        /\ leg[c] = 2
        /\ Len(waypoints[c]) = 4
        /\ Len(path[c]) >= 2

\* The ends of the failing leg that are not in the filtered graph.
AbsentEnds(c) == {result[c].a, result[c].b} \ Filtered(c).nodes

UnknownNodeFailure(c) == LegFailure(c) /\ AbsentEnds(c) # {}

\* C7: an UnknownNode failure tells an end that the avoid set removed from an
\* end that the loaded graph never held: two such failures, one of each cause,
\* differ in exception type or message (the ends' names left aside).
C7_UnknownNodeCause ==
    \A c1, c2 \in Calls :
        (/\ UnknownNodeFailure(c1)
         /\ UnknownNodeFailure(c2)
         /\ AbsentEnds(c1) \subseteq Loaded.nodes
         /\ AbsentEnds(c2) \cap Loaded.nodes = {})
        => <<result[c1].exc, result[c1].msg>> # <<result[c2].exc, result[c2].msg>>

\* C8: a call does not return when a leg has both ends in the filtered graph
\* and no path between them, and a call that raised at such a leg raised the
\* no-path failure, not the one of an unknown node.
C8_DisconnectionFailure ==
    \A c \in Calls :
        LET req == Requested(c)
            g == Filtered(c)
            cut == {k \in 1..(Len(req) - 1) :
                      /\ req[k] \in g.nodes
                      /\ req[k + 1] \in g.nodes
                      /\ ~Connected(g, req[k], req[k + 1])}
        IN /\ Returned(c) => cut = {}
           /\ (LegFailure(c) /\ leg[c] \in cut) => result[c].msg = NoPathMsg

\* C9: in the graph load hands back, both ends of every edge are nodes of the
\* node table and every weight is at least 0.
C9_LoadValidation ==
    \A e \in DOMAIN sharedG.weight :
        /\ e \subseteq venue.nodes
        /\ sharedG.weight[e] >= 0

\* C10: a call whose start or end is missing or empty ends with the
\* empty-request failure before any leg is computed; a request is not
\* rejected as empty for leaving out waypoints or avoid.
C10_EmptyRequest ==
    \A c \in Calls :
        Finished(c) =>
            IF StartOf(c) \in {NoneVal, EmptyId} \/ EndOf(c) \in {NoneVal, EmptyId}
            THEN /\ pc[c] = "raised"
                 /\ result[c].msg = PlanMsg
                 /\ leg[c] = 0
            ELSE result[c].msg # PlanMsg

====
